---- MODULE Spec2Model ----
(***************************************************************************)
(* The retrying HTTP transport of the graphql client (graphql.go):         *)
(* Client.Run, retryableTransport.shouldRetry, retryableTransport.RoundTrip *)
(* and drainBody.  Each call is a process whose position is pc[c].          *)
(*                                                                         *)
(* Go's int, int64 and time.Duration are kept at their width: a 64-bit      *)
(* two's complement word is a little-endian tuple of four 16-bit limbs.     *)
(***************************************************************************)
EXTENDS Integers, Sequences, FiniteSets, TLC

----------------------------------------------------------------------------
(* Bounds of the model. *)

\* number of call slots of the transport
NumCalls == 2
\* longest request body, in bytes
MaxBodyLen == 2

----------------------------------------------------------------------------
(* Fixed-width integers. *)

\* one limb holds 16 bits
Base == 2^16
\* limbs of a 64-bit word (int64, uint64's low part, time.Duration)
W64 == 64 \div 16
\* limbs of the exact (unwrapped) numbers used while parsing
WBig == W64 + 1

ZeroLimbs(k) == [i \in 1..k |-> 0]
Zero64 == ZeroLimbs(W64)
\* a small natural number (< 2^31) as a k-limb word
FromNat(n, k) == [i \in 1..k |-> IF i = 1 THEN n % Base
                                  ELSE IF i = 2 THEN n \div Base ELSE 0]
One64 == FromNat(1, W64)
\* 2^e as a k-limb word
Pow2(e, k) == [i \in 1..k |-> IF i = (e \div 16) + 1 THEN 2^(e % 16) ELSE 0]

\* x * m + carry, truncated to Len(x) limbs (m, carry small)
RECURSIVE MulAdd(_, _, _)
MulAdd(x, m, carry) ==
    IF x = <<>> THEN <<>>
    ELSE LET v == Head(x) * m + carry
         IN  <<v % Base>> \o MulAdd(Tail(x), m, v \div Base)

\* x + y + carry, truncated to Len(x) limbs (Len(x) = Len(y))
RECURSIVE AddLimbs(_, _, _)
AddLimbs(x, y, carry) ==
    IF x = <<>> THEN <<>>
    ELSE LET v == Head(x) + Head(y) + carry
         IN  <<v % Base>> \o AddLimbs(Tail(x), Tail(y), v \div Base)

\* two's complement negation at the width of x
NegLimbs(x) ==
    AddLimbs([i \in 1..Len(x) |-> Base - 1 - x[i]], FromNat(1, Len(x)), 0)

\* unsigned x < y (Len(x) = Len(y)), most significant limb last
RECURSIVE LessLimbs(_, _)
LessLimbs(x, y) ==
    IF x = <<>> THEN FALSE
    ELSE LET n == Len(x)
         IN  IF x[n] # y[n] THEN x[n] < y[n]
             ELSE LessLimbs(SubSeq(x, 1, n - 1), SubSeq(y, 1, n - 1))

\* the low k limbs of x, and x zero-extended to k limbs
Low(x, k) == SubSeq(x, 1, k)
Ext(x, k) == [i \in 1..k |-> IF i <= Len(x) THEN x[i] ELSE 0]

\* sign of a 64-bit two's complement word
IsNeg64(x) == x[W64] >= Base \div 2
IsPos64(x) == ~IsNeg64(x) /\ x # Zero64

----------------------------------------------------------------------------
(* strconv.Atoi, as shouldRetry uses it on the Retry-After header.  A header *)
(* value is a tuple of one-character strings; the absent header is <<>>,    *)
(* which is what Header.Get returns for it.                                 *)

DigitChars == <<"0", "1", "2", "3", "4", "5", "6", "7", "8", "9">>
IsDigit(ch) == \E i \in 1..Len(DigitChars) : DigitChars[i] = ch
DigitVal(ch) == (CHOOSE i \in 1..Len(DigitChars) : DigitChars[i] = ch) - 1

\* the widths of int a build of the package can have
IntSizes == {32, 64}

\* strconv.ParseUint(s, 10, bits) continued from the accumulator n: a
\* character that is no digit ends the parse with 0 and a syntax error, a value
\* above 2^bits - 1 ends it at once with 2^bits - 1 and a range error
RECURSIVE ParseUintFrom(_, _, _)
ParseUintFrom(s, n, bits) ==
    IF s = <<>> THEN [val |-> n, err |-> "nil"]
    ELSE IF ~IsDigit(Head(s)) THEN [val |-> ZeroLimbs(WBig), err |-> "syntax"]
    ELSE LET n1     == MulAdd(n, 10, DigitVal(Head(s)))
             maxVal == AddLimbs(Pow2(bits, WBig), NegLimbs(FromNat(1, WBig)), 0)
         IN  IF LessLimbs(maxVal, n1)
             THEN [val |-> maxVal, err |-> "range"]
             ELSE ParseUintFrom(Tail(s), n1, bits)

ParseUint(s, bits) ==
    IF s = <<>> THEN [val |-> ZeroLimbs(WBig), err |-> "syntax"]
    ELSE ParseUintFrom(s, ZeroLimbs(WBig), bits)

\* strconv.ParseInt(s, 10, bits): the result is an int64
ParseInt(s, bits) ==
    IF s = <<>> THEN [val |-> Zero64, err |-> "syntax"]
    ELSE LET neg    == Head(s) = "-"
             digits == IF Head(s) \in {"+", "-"} THEN Tail(s) ELSE s
             un     == ParseUint(digits, bits)
             cutoff == Pow2(bits - 1, WBig)
         IN  IF un.err = "syntax" THEN [val |-> Zero64, err |-> "syntax"]
             ELSE IF ~neg /\ ~LessLimbs(un.val, cutoff)
             THEN [val |-> Low(AddLimbs(cutoff, NegLimbs(FromNat(1, WBig)), 0), W64),
                   err |-> "range"]
             ELSE IF neg /\ LessLimbs(cutoff, un.val)
             THEN [val |-> NegLimbs(Low(cutoff, W64)), err |-> "range"]
             ELSE [val |-> IF neg THEN NegLimbs(Low(un.val, W64)) ELSE Low(un.val, W64),
                   err |-> un.err]

\* strconv.Atoi(s) on a build whose int has `bits` bits; the int is kept
\* sign-extended to 64 bits, which is what time.Duration(n) makes of it
Atoi(s, bits) == ParseInt(s, bits)

----------------------------------------------------------------------------
(* time.Duration: an int64 count of nanoseconds. *)

Millisecond == MulAdd(MulAdd(One64, 1000, 0), 1000, 0)
Second == MulAdd(Millisecond, 1000, 0)
\* d * time.Second in int64 arithmetic (the product wraps modulo 2^64;
\* time.Second is 1000 * 1000 * 1000)
TimesSecond(d) == MulAdd(MulAdd(MulAdd(d, 1000, 0), 1000, 0), 1000, 0)

----------------------------------------------------------------------------
(* Values: errors, responses, request bodies. *)

\* an error value: who made it, and the parts of its text
NilErr == [kind |-> "nil", msg |-> <<>>]
\* errors of the base transport (no response was received)
TransportErrs == {[kind |-> "transport", msg |-> <<"connection refused">>],
                  [kind |-> "transport", msg |-> <<"i/o timeout">>]}
Errorf(parts) == [kind |-> "errorf", msg |-> parts]
\* ctx.Err() of a context that is done
CtxErr(why) == [kind |-> "context", msg |-> <<why>>]

StatusOK == 200
StatusTooManyRequests == 429
StatusInternalServerError == 500
StatusBadGateway == 502
StatusServiceUnavailable == 503
StatusGatewayTimeout == 504
\* 400 stands for the statuses the policy does not name
Statuses == {StatusOK, 400, StatusTooManyRequests,
             StatusInternalServerError, StatusBadGateway,
             StatusServiceUnavailable, StatusGatewayTimeout}

\* Retry-After values a server may send (<<>>: no such header)
Nines == [i \in 1..20 |-> "9"]
RetryAfterValues ==
    { <<>>, <<"0">>, <<"2">>, <<"+", "3">>, <<"-", "1">>, <<"x">>, <<"2", "x">>,
      <<"9", "2", "2", "3", "3", "7", "2", "0", "3", "7">>,
      Nines, <<"-">> \o Nines }

\* a *http.Response: its status, its Retry-After header, and whether its body
\* was read to the end and closed
NilResp == [nil |-> TRUE, status |-> 0, header |-> <<>>, drained |-> FALSE]
Response(st, h) == [nil |-> FALSE, status |-> st, header |-> h, drained |-> FALSE]
\* every Retry-After value on a 429; on the other statuses, where the policy
\* does not read the header, its absence and one value
Responses == {Response(StatusTooManyRequests, h) : h \in RetryAfterValues}
             \cup {Response(st, h) : st \in Statuses, h \in {<<>>, <<"2">>}}

\* a request body: a reader over data, read up to pos
Bytes == {"a", "b"}
RECURSIVE SeqsUpTo(_, _)
SeqsUpTo(S, n) ==
    IF n = 0 THEN {<<>>}
    ELSE LET shorter == SeqsUpTo(S, n - 1)
         IN  shorter \cup {Append(q, x) : q \in {r \in shorter : Len(r) = n - 1}, x \in S}
Payloads == SeqsUpTo(Bytes, MaxBodyLen)
NilBody == [nil |-> TRUE, data |-> <<>>, pos |-> 0]
\* io.NopCloser(bytes.NewBuffer(b))
NewBuffer(b) == [nil |-> FALSE, data |-> b, pos |-> 0]
\* io.ReadAll(r): the bytes not read yet
ReadAll(r) == SubSeq(r.data, r.pos + 1, Len(r.data))

----------------------------------------------------------------------------
(* The retry policy. *)

RetryCount == 5

\* resp.Header.Get("Retry-After")
HeaderGet(r) == r.header

\* shouldRetry reading Retry-After on a 503 as it does on a 429
ShouldRetryAfterOn503(e, r, dflt, bits) ==
    IF e # NilErr THEN [wait |-> Zero64, retry |-> FALSE]
    ELSE IF r.status \in {StatusBadGateway, StatusGatewayTimeout}
    THEN [wait |-> MulAdd(Millisecond, 250, 0), retry |-> TRUE]
    ELSE IF r.status \in {StatusTooManyRequests, StatusServiceUnavailable}
    THEN LET waitTimeInSecs   == Atoi(HeaderGet(r), bits).val
             waitTimeDuration == TimesSecond(waitTimeInSecs)
         IN  [wait  |-> IF waitTimeInSecs = Zero64 THEN dflt ELSE waitTimeDuration,
              retry |-> TRUE]
    ELSE [wait |-> Zero64, retry |-> FALSE]

\* shouldRetry with 500 among the statuses retried after 250 ms
ShouldRetryOn500(e, r, dflt, bits) ==
    IF e # NilErr THEN [wait |-> Zero64, retry |-> FALSE]
    ELSE IF r.status \in {StatusInternalServerError, StatusBadGateway,
                          StatusServiceUnavailable, StatusGatewayTimeout}
    THEN [wait |-> MulAdd(Millisecond, 250, 0), retry |-> TRUE]
    ELSE IF r.status = StatusTooManyRequests
    THEN LET waitTimeInSecs   == Atoi(HeaderGet(r), bits).val
             waitTimeDuration == TimesSecond(waitTimeInSecs)
         IN  [wait  |-> IF waitTimeInSecs = Zero64 THEN dflt ELSE waitTimeDuration,
              retry |-> TRUE]
    ELSE [wait |-> Zero64, retry |-> FALSE]

\* shouldRetry(err, resp) of a transport whose default wait is dflt, on a build
\* whose int has `bits` bits: (time to wait, whether to retry)
ShouldRetry(e, r, dflt, bits) ==
    IF e # NilErr THEN [wait |-> Zero64, retry |-> FALSE]
    ELSE IF r.status \in {StatusBadGateway, StatusServiceUnavailable, StatusGatewayTimeout}
    THEN [wait |-> MulAdd(Millisecond, 250, 0), retry |-> TRUE]
    ELSE IF r.status = StatusTooManyRequests
    THEN LET waitTimeInSecs   == Atoi(HeaderGet(r), bits).val
             waitTimeDuration == TimesSecond(waitTimeInSecs)
         IN  [wait  |-> IF waitTimeInSecs = Zero64 THEN dflt ELSE waitTimeDuration,
              retry |-> TRUE]
    ELSE [wait |-> Zero64, retry |-> FALSE]

\* the condition of RoundTrip's retry loop
LoopCondOneMore(n) == n <= RetryCount
LoopCond(n) == n < RetryCount
\* the condition of RoundTrip's "retry limit reached" return
LimitReached(n) == n >= RetryCount

----------------------------------------------------------------------------
(* State. *)

CallIds == 1..NumCalls

VARIABLES
    intSize,        \* bits of int on this build
    defaultWait,    \* t.defaultWaitAfterTooManyRequests
    pc,             \* pc[c]: where call c is ("unused": c is never made)
    ctxAtRun,       \* the state of the context Client.Run of c was given
    runErr,         \* what Client.Run of c returned before any request was built
    origBody,       \* the body reader the caller gave to c
    reqBody,        \* req.Body
    bodyBytes,      \* bodyBytes
    resp,           \* resp
    err,            \* err
    retries,        \* retries
    timeToWait,     \* timeToWait of the current iteration
    result,         \* what RoundTrip returned: [resp, err]
    attempts,       \* number of requests c handed to the base transport
    handed,         \* the body the base transport was handed at c's last attempt
    slept,          \* the time.Sleep made since c's last attempt, if any
    waits,          \* number of times c went through the wait step
    drains,         \* number of drainBody calls of c
    firstFinal,     \* the response of c's first attempt when its status is
                    \* not one that is retried, else NilResp
    allRetryable,   \* every attempt of c so far returned a status that is retried
    inflight,       \* requests of c the base transport has not answered yet
    undrained,      \* responses c received whose body it has not drained
    decisions,      \* number of times shouldRetry told c to retry
    reclones        \* number of times c put a new buffer in req.Body for a retry

cfgVars == <<intSize, defaultWait>>
runVars == <<ctxAtRun, runErr, origBody>>
reqVars == <<reqBody, bodyBytes>>
obsVars == <<attempts, handed, slept, waits, drains, firstFinal, allRetryable,
            inflight, undrained, decisions, reclones>>
vars == <<intSize, defaultWait, pc, ctxAtRun, runErr, origBody, reqBody,
          bodyBytes, resp, err, retries, timeToWait, result, attempts, handed,
          slept, waits, drains, firstFinal, allRetryable, inflight, undrained,
          decisions, reclones>>

\* default waits a client may be configured with (WithWaitAfterTooManyRequests);
\* zero when the option is not used
DefaultWaits == {Zero64, TimesSecond(FromNat(30, W64))}

NoSleep == [did |-> FALSE, d |-> Zero64]
RetrySet == {StatusTooManyRequests, StatusBadGateway, StatusServiceUnavailable,
             StatusGatewayTimeout}

InitCalls ==
    /\ ctxAtRun = [c \in CallIds |-> "none"]
    /\ runErr = [c \in CallIds |-> NilErr]
    /\ origBody = [c \in CallIds |-> NilBody]
    /\ reqBody = [c \in CallIds |-> NilBody]
    /\ bodyBytes = [c \in CallIds |-> <<>>]
    /\ resp = [c \in CallIds |-> NilResp]
    /\ err = [c \in CallIds |-> NilErr]
    /\ retries = [c \in CallIds |-> 0]
    /\ timeToWait = [c \in CallIds |-> Zero64]
    /\ result = [c \in CallIds |-> [resp |-> NilResp, err |-> NilErr]]
    /\ attempts = [c \in CallIds |-> 0]
    /\ handed = [c \in CallIds |-> NilBody]
    /\ slept = [c \in CallIds |-> NoSleep]
    /\ waits = [c \in CallIds |-> 0]
    /\ drains = [c \in CallIds |-> 0]
    /\ firstFinal = [c \in CallIds |-> NilResp]
    /\ allRetryable = [c \in CallIds |-> TRUE]
    /\ inflight = [c \in CallIds |-> 0]
    /\ undrained = [c \in CallIds |-> 0]
    /\ decisions = [c \in CallIds |-> 0]
    /\ reclones = [c \in CallIds |-> 0]

\* NewClient / NewRetryableClient: one transport, one call made on it
Init ==
    /\ intSize \in IntSizes
    /\ defaultWait \in DefaultWaits
    /\ pc = [c \in CallIds |-> IF c = 1 THEN "idle" ELSE "unused"]
    /\ InitCalls

----------------------------------------------------------------------------
(* Client.Run and the direct use of the client NewRetryableClient returns. *)

\* select { case <-ctx.Done(): ...; default: }
CtxDoneNever(ctx) == FALSE
CtxDone(ctx) == ctx # "live"

\* Client.Run(ctx, req, resp): the context is looked at once, on entry; a
\* request with files needs the multipart option; otherwise the request is
\* built around a buffer holding the encoded query and given to httpClient.Do
Run(c) ==
    /\ pc[c] = "idle"
    /\ \E ctx \in {"live", "context canceled", "context deadline exceeded"},
          filesWithoutMultipart \in BOOLEAN,
          payload \in Payloads :
        /\ ctxAtRun' = [ctxAtRun EXCEPT ![c] = ctx]
        /\ IF CtxDone(ctx)
           THEN /\ runErr' = [runErr EXCEPT ![c] = CtxErr(ctx)]
                /\ pc' = [pc EXCEPT ![c] = "returned"]
                /\ UNCHANGED <<origBody, reqBody>>
           ELSE IF filesWithoutMultipart
           THEN /\ runErr' = [runErr EXCEPT ![c] =
                       Errorf(<<"cannot send files with PostFields option">>)]
                /\ pc' = [pc EXCEPT ![c] = "returned"]
                /\ UNCHANGED <<origBody, reqBody>>
           ELSE /\ origBody' = [origBody EXCEPT ![c] = NewBuffer(payload)]
                /\ reqBody' = [reqBody EXCEPT ![c] = NewBuffer(payload)]
                /\ pc' = [pc EXCEPT ![c] = "RoundTrip"]
                /\ UNCHANGED runErr
    /\ UNCHANGED <<cfgVars, bodyBytes, resp, err, retries, timeToWait, result, obsVars>>

\* NewRetryableClient(...).Do(req): any request, with or without a body
Do(c) ==
    /\ pc[c] = "idle"
    /\ \E b \in {NilBody} \cup {NewBuffer(p) : p \in Payloads} :
        /\ origBody' = [origBody EXCEPT ![c] = b]
        /\ reqBody' = [reqBody EXCEPT ![c] = b]
    /\ pc' = [pc EXCEPT ![c] = "RoundTrip"]
    /\ UNCHANGED <<cfgVars, ctxAtRun, runErr, bodyBytes, resp, err, retries,
                   timeToWait, result, obsVars>>

----------------------------------------------------------------------------
(* retryableTransport.RoundTrip, one action per step. *)

\* what t.transport.RoundTrip(req) can return: a response and no error, or
\* an error and no response
Outcomes == {[resp |-> r, err |-> NilErr] : r \in Responses}
            \cup {[resp |-> NilResp, err |-> e] : e \in TransportErrs}
RetryWorthy(o) == o.err = NilErr /\ o.resp.status \in RetrySet

\* "Clone the request body": read the caller's body to the end and put a
\* buffer over the bytes in its place
CloneBody(c) ==
    /\ pc[c] = "RoundTrip"
    /\ IF reqBody[c].nil
       THEN UNCHANGED <<origBody, reqBody, bodyBytes>>
       ELSE LET all == ReadAll(reqBody[c])
            IN  /\ bodyBytes' = [bodyBytes EXCEPT ![c] = all]
                /\ origBody' = [origBody EXCEPT ![c].pos = Len(origBody[c].data)]
                /\ reqBody' = [reqBody EXCEPT ![c] = NewBuffer(all)]
    /\ pc' = [pc EXCEPT ![c] = "send"]
    /\ UNCHANGED <<cfgVars, ctxAtRun, runErr, resp, err, retries, timeToWait,
                   result, obsVars>>

\* t.transport.RoundTrip(req) is called: the base transport is handed req with
\* its current body
Submit(c) ==
    /\ handed' = [handed EXCEPT ![c] = reqBody[c]]
    /\ attempts' = [attempts EXCEPT ![c] = @ + 1]
    /\ inflight' = [inflight EXCEPT ![c] = @ + 1]
    /\ slept' = [slept EXCEPT ![c] = NoSleep]

\* t.transport.RoundTrip(req) returns: the base transport has read some of the
\* body and its outcome is o
Complete(c, o, upTo) ==
    /\ reqBody' = [reqBody EXCEPT ![c].pos = upTo]
    /\ resp' = [resp EXCEPT ![c] = o.resp]
    /\ err' = [err EXCEPT ![c] = o.err]
    /\ inflight' = [inflight EXCEPT ![c] = @ - 1]
    /\ undrained' = [undrained EXCEPT ![c] = IF o.resp.nil THEN @ ELSE @ + 1]
    /\ firstFinal' = [firstFinal EXCEPT ![c] =
                         IF attempts[c] = 1 /\ o.err = NilErr
                            /\ o.resp.status \notin RetrySet
                         THEN o.resp ELSE @]
    /\ allRetryable' = [allRetryable EXCEPT ![c] = @ /\ RetryWorthy(o)]

\* "Send the request": the call of the base transport
Send(c) ==
    /\ pc[c] = "send"
    /\ Submit(c)
    /\ pc' = [pc EXCEPT ![c] = "sent"]
    /\ UNCHANGED <<cfgVars, runVars, reqVars, resp, err, retries, timeToWait,
                   result, waits, drains, firstFinal, allRetryable, undrained,
                   decisions, reclones>>

\* the base transport answers the first request, and retries := 0
SendReturns(c) ==
    /\ pc[c] = "sent"
    /\ \E o \in Outcomes, upTo \in reqBody[c].pos..Len(reqBody[c].data) :
           Complete(c, o, upTo)
    /\ retries' = [retries EXCEPT ![c] = 0]
    /\ pc' = [pc EXCEPT ![c] = "loop"]
    /\ UNCHANGED <<cfgVars, runVars, bodyBytes, timeToWait, result, attempts,
                   handed, slept, waits, drains, decisions, reclones>>

\* for retries < RetryCount { timeToWait, toRetry := t.shouldRetry(err, resp);
\* if !toRetry { break } ...
LoopHead(c) ==
    /\ pc[c] = "loop"
    /\ IF LoopCond(retries[c])
       THEN LET d == ShouldRetry(err[c], resp[c], defaultWait, intSize)
            IN  IF d.retry
                THEN /\ timeToWait' = [timeToWait EXCEPT ![c] = d.wait]
                     /\ decisions' = [decisions EXCEPT ![c] = @ + 1]
                     /\ pc' = [pc EXCEPT ![c] = "wait"]
                ELSE /\ pc' = [pc EXCEPT ![c] = "exit"]
                     /\ UNCHANGED <<timeToWait, decisions>>
       ELSE /\ pc' = [pc EXCEPT ![c] = "exit"]
            /\ UNCHANGED <<timeToWait, decisions>>
    /\ UNCHANGED <<cfgVars, runVars, reqVars, resp, err, retries, result, attempts,
                   handed, slept, waits, drains, firstFinal, allRetryable,
                   inflight, undrained, reclones>>

\* the retry loop without its time.Sleep call
WaitSkipsSleep(c) ==
    /\ pc[c] = "wait"
    /\ waits' = [waits EXCEPT ![c] = @ + 1]
    /\ pc' = [pc EXCEPT ![c] = "drain"]
    /\ UNCHANGED <<cfgVars, runVars, reqVars, resp, err, retries, timeToWait,
                   result, attempts, handed, slept, drains, firstFinal,
                   allRetryable, inflight, undrained, decisions, reclones>>

\* if timeToWait > 0 { log; time.Sleep(timeToWait) } else { log }
Wait(c) ==
    /\ pc[c] = "wait"
    /\ IF IsPos64(timeToWait[c])
       THEN slept' = [slept EXCEPT ![c] = [did |-> TRUE, d |-> timeToWait[c]]]
       ELSE UNCHANGED slept
    /\ waits' = [waits EXCEPT ![c] = @ + 1]
    /\ pc' = [pc EXCEPT ![c] = "drain"]
    /\ UNCHANGED <<cfgVars, runVars, reqVars, resp, err, retries, timeToWait,
                   result, attempts, handed, drains, firstFinal, allRetryable,
                   inflight, undrained, decisions, reclones>>

\* the retry loop without its drainBody call
DrainForgotten(c) ==
    /\ pc[c] = "drain"
    /\ pc' = [pc EXCEPT ![c] = "reclone"]
    /\ UNCHANGED <<cfgVars, runVars, reqVars, resp, err, retries, timeToWait,
                   result, obsVars>>

\* drainBody(resp): read the response body to the end and close it
DrainBody(c) ==
    /\ pc[c] = "drain"
    /\ resp' = [resp EXCEPT ![c].drained = TRUE]
    /\ drains' = [drains EXCEPT ![c] = @ + 1]
    /\ undrained' = [undrained EXCEPT ![c] = IF resp[c].drained THEN @ ELSE @ - 1]
    /\ pc' = [pc EXCEPT ![c] = "reclone"]
    /\ UNCHANGED <<cfgVars, runVars, reqVars, err, retries, timeToWait, result,
                   attempts, handed, slept, waits, firstFinal, allRetryable,
                   inflight, decisions, reclones>>

\* the retry loop without its second clone: the body stays as the last attempt
\* left it
RecloneForgotten(c) ==
    /\ pc[c] = "reclone"
    /\ pc' = [pc EXCEPT ![c] = "resend"]
    /\ UNCHANGED <<cfgVars, runVars, reqVars, resp, err, retries, timeToWait,
                   result, obsVars>>

\* "Clone the request body again"
Reclone(c) ==
    /\ pc[c] = "reclone"
    /\ IF reqBody[c].nil
       THEN UNCHANGED <<reqBody, reclones>>
       ELSE /\ reqBody' = [reqBody EXCEPT ![c] = NewBuffer(bodyBytes[c])]
            /\ reclones' = [reclones EXCEPT ![c] = @ + 1]
    /\ pc' = [pc EXCEPT ![c] = "resend"]
    /\ UNCHANGED <<cfgVars, runVars, bodyBytes, resp, err, retries, timeToWait,
                   result, attempts, handed, slept, waits, drains, firstFinal,
                   allRetryable, inflight, undrained, decisions>>

\* "Retry the request": the call of the base transport
Resend(c) ==
    /\ pc[c] = "resend"
    /\ Submit(c)
    /\ pc' = [pc EXCEPT ![c] = "resent"]
    /\ UNCHANGED <<cfgVars, runVars, reqVars, resp, err, retries, timeToWait,
                   result, waits, drains, firstFinal, allRetryable, undrained,
                   decisions, reclones>>

\* the retry loop counting its retries in a field of the transport, which
\* every call on it shares
ResendReturnsSharedCounter(c) ==
    /\ pc[c] = "resent"
    /\ \E o \in Outcomes, upTo \in reqBody[c].pos..Len(reqBody[c].data) :
           Complete(c, o, upTo)
    /\ retries' = [d \in CallIds |-> retries[d] + 1]
    /\ timeToWait' = [timeToWait EXCEPT ![c] = Zero64]
    /\ pc' = [pc EXCEPT ![c] = "loop"]
    /\ UNCHANGED <<cfgVars, runVars, bodyBytes, result, attempts, handed, slept,
                   waits, drains, decisions, reclones>>

\* the base transport answers the retried request, and retries++; the
\* iteration's timeToWait ends here
ResendReturns(c) ==
    /\ pc[c] = "resent"
    /\ \E o \in Outcomes, upTo \in reqBody[c].pos..Len(reqBody[c].data) :
           Complete(c, o, upTo)
    /\ retries' = [retries EXCEPT ![c] = @ + 1]
    /\ timeToWait' = [timeToWait EXCEPT ![c] = Zero64]
    /\ pc' = [pc EXCEPT ![c] = "loop"]
    /\ UNCHANGED <<cfgVars, runVars, bodyBytes, result, attempts, handed, slept,
                   waits, drains, decisions, reclones>>

\* the returns after the loop
Return(c) ==
    /\ pc[c] = "exit"
    /\ result' = [result EXCEPT ![c] =
           IF LimitReached(retries[c])
           THEN IF err[c] # NilErr
                THEN [resp |-> resp[c],
                      err  |-> Errorf(<<"retry limit reached (err=">> \o err[c].msg
                                      \o <<")">>)]
                ELSE [resp |-> resp[c], err |-> Errorf(<<"retry limit reached">>)]
           ELSE [resp |-> resp[c], err |-> err[c]]]
    /\ pc' = [pc EXCEPT ![c] = "done"]
    /\ UNCHANGED <<cfgVars, runVars, reqVars, resp, err, retries, timeToWait, obsVars>>

----------------------------------------------------------------------------

Step(c) ==
    \/ Run(c)
    \/ Do(c)
    \/ CloneBody(c)
    \/ Send(c)
    \/ SendReturns(c)
    \/ LoopHead(c)
    \/ Wait(c)
    \/ DrainBody(c)
    \/ Reclone(c)
    \/ Resend(c)
    \/ ResendReturns(c)
    \/ Return(c)

Next == \E c \in CallIds : Step(c)

Spec == Init /\ [][Next]_vars

----------------------------------------------------------------------------
(* Several calls at once on one transport, each with few inputs. *)

\* NewRetryableClient: one transport, every call made on it
InitConc ==
    /\ intSize = 64
    /\ defaultWait = TimesSecond(FromNat(30, W64))
    /\ pc = [c \in CallIds |-> "idle"]
    /\ InitCalls

\* the inputs of a call when several run at once: a request without a body, a
\* base transport that answers 503, 200 or fails
FewInputs(c) ==
    /\ origBody[c].nil
    /\ ctxAtRun[c] = "none"
    /\ resp[c].header = <<>>
    /\ resp[c].nil \/ resp[c].status \in {StatusOK, StatusServiceUnavailable}
    /\ err[c] \in {NilErr, [kind |-> "transport", msg |-> <<"connection refused">>]}

NextConc ==
    \E c \in CallIds :
        \/ Do(c) /\ FewInputs(c)'
        \/ CloneBody(c)
        \/ Send(c)
        \/ SendReturns(c) /\ FewInputs(c)'
        \/ LoopHead(c)
        \/ Wait(c)
        \/ DrainBody(c)
        \/ Reclone(c)
        \/ Resend(c)
        \/ ResendReturns(c) /\ FewInputs(c)'
        \/ Return(c)

SpecConc == InitConc /\ [][NextConc]_vars

----------------------------------------------------------------------------
(* Claims. *)

Finished(c) == pc[c] = "done"
LimitErr == Errorf(<<"retry limit reached">>)
IsLimitErr(e) == e.kind = "errorf" /\ Len(e.msg) > 0
                 /\ e.msg[1] \in {"retry limit reached", "retry limit reached (err="}
LastNotRetried(c) == err[c] = NilErr /\ ~resp[c].nil /\ resp[c].status \notin RetrySet
LastRetryWorthy(c) == err[c] = NilErr /\ ~resp[c].nil /\ resp[c].status \in RetrySet

\* C1: when a call has returned and its last attempt yielded a response whose
\* status is not 429, 502, 503 or 504, the call returned that response with a
\* nil error; and a call returns a "retry limit reached" error only when its
\* last attempt's outcome was retry-worthy.
C1_NotRetriedIsReturned ==
    \A c \in CallIds :
        Finished(c) =>
            /\ LastNotRetried(c) => result[c] = [resp |-> resp[c], err |-> NilErr]
            /\ IsLimitErr(result[c].err) => LastRetryWorthy(c)

\* C2: a call all of whose attempts returned a retry-worthy status never makes
\* more than 6 attempts, and when it has returned it made exactly 6 and
\* returned the "retry limit reached" error.
C2_SixAttemptsThenLimit ==
    \A c \in CallIds :
        allRetryable[c] =>
            /\ attempts[c] <= 6
            /\ Finished(c) => attempts[c] = 6 /\ result[c].err = LimitErr
C2_Witness ==
    \E c \in CallIds : Finished(c) /\ allRetryable[c] /\ attempts[c] = 6

\* C3: when a call has returned and its last attempt ended in a transport error
\* with no response, the call returned that very error.
C3_TransportErrorSurfaced ==
    \A c \in CallIds :
        Finished(c) /\ err[c] # NilErr => result[c].err = err[c]

\* C4: a call whose first attempt returned a status outside {429, 502, 503,
\* 504} makes exactly one attempt, goes through no wait, drains no response
\* body, and returns that response, as received, with a nil error.
C4_FirstFinalIsOneAttempt ==
    \A c \in CallIds :
        firstFinal[c] # NilResp =>
            /\ attempts[c] = 1
            /\ waits[c] = 0
            /\ slept[c] = NoSleep
            /\ drains[c] = 0
            /\ Finished(c) => result[c] = [resp |-> firstFinal[c], err |-> NilErr]
C4_Witness ==
    \E c \in CallIds :
        Finished(c) /\ firstFinal[c] # NilResp /\ firstFinal[c].status = 400

\* the wait of the current retry has been gone through and the next attempt
\* is not made yet
Waited(c) == pc[c] \in {"drain", "reclone", "resend"}

\* exact arithmetic for the claims: numbers wide enough for every header value
\* times 10^9
WExact == W64 + 3
AllDigits(h) == h # <<>> /\ \A i \in 1..Len(h) : IsDigit(h[i])
RECURSIVE ExactValueFrom(_, _)
ExactValueFrom(h, n) ==
    IF h = <<>> THEN n ELSE ExactValueFrom(Tail(h), MulAdd(n, 10, DigitVal(Head(h))))
\* the number a string of digits denotes
ExactValue(h) == ExactValueFrom(h, ZeroLimbs(WExact))
\* h holds a positive integer
HoldsPositive(h) == AllDigits(h) /\ ExactValue(h) # ZeroLimbs(WExact)
\* N seconds in nanoseconds, N the number h denotes
ExactSeconds(h) == TimesSecond(ExactValue(h))

\* C5: after an attempt that returned 429 with a Retry-After header holding a
\* positive integer N, the transport sleeps exactly N seconds before the next
\* attempt, whatever the default wait.
C5_WaitsHeaderSeconds ==
    \A c \in CallIds :
        Waited(c) /\ resp[c].status = StatusTooManyRequests
                  /\ HoldsPositive(resp[c].header) =>
            /\ slept[c].did
            /\ Ext(slept[c].d, WExact) = ExactSeconds(resp[c].header)

\* the header is absent, zero, or not parsable as an int of this build
FallsBack(h) == Atoi(h, intSize).err # "nil" \/ Atoi(h, intSize).val = Zero64

\* C6: after an attempt that returned 429 with a Retry-After header that is
\* absent, zero or not parsable as an integer, the transport sleeps the
\* configured default wait before the next attempt, and does not sleep at all
\* when that default is zero.
C6_FallsBackToDefault ==
    \A c \in CallIds :
        Waited(c) /\ resp[c].status = StatusTooManyRequests
                  /\ FallsBack(resp[c].header) =>
            slept[c] = IF defaultWait = Zero64 THEN NoSleep
                       ELSE [did |-> TRUE, d |-> defaultWait]

\* C7: after an attempt that returned 502, 503 or 504 the transport sleeps
\* exactly 250 ms (250000000 ns) before the next attempt, whatever the
\* response's headers and the default wait.
C7_QuarterSecond ==
    \A c \in CallIds :
        Waited(c) /\ resp[c].status \in {502, 503, 504} =>
            slept[c] = [did |-> TRUE, d |-> FromNat(250000000, W64)]
C7_Witness ==
    \E c \in CallIds :
        /\ pc[c] = "resend" /\ resp[c].status = 503
        /\ resp[c].header = <<"2">> /\ defaultWait # Zero64

\* C8: the caller's body is read to its end before the first attempt, and at
\* every attempt the base transport is handed an unread body holding exactly
\* the bytes of the caller's body; a request without a body is handed on
\* without one at every attempt.
C8_FreshBodyEachAttempt ==
    \A c \in CallIds :
        attempts[c] > 0 =>
            IF origBody[c].nil THEN handed[c] = NilBody
            ELSE /\ origBody[c].pos = Len(origBody[c].data)
                 /\ handed[c] = NewBuffer(origBody[c].data)
\* a third attempt of a two-byte body, the second one read half
C8_Witness ==
    \E c \in CallIds :
        /\ attempts[c] = 3 /\ Len(origBody[c].data) = 2
        /\ pc[c] = "loop" /\ reqBody[c].pos = 1

\* C9: a call that has returned gave its caller either a response and a nil
\* error, or an error and no response, never both a response and an error.
C9_ResponseOrError ==
    \A c \in CallIds :
        Finished(c) => (result[c].resp = NilResp) # (result[c].err = NilErr)

\* C10: when Client.Run is called with a context that is already cancelled or
\* past its deadline, Run returns the context's error and no attempt is made.
C10_CancelledBeforeRun ==
    \A c \in CallIds :
        ctxAtRun[c] \in {"context canceled", "context deadline exceeded"} =>
            /\ pc[c] = "returned"
            /\ runErr[c] = CtxErr(ctxAtRun[c])
            /\ attempts[c] = 0
C10_Witness ==
    \E c \in CallIds :
        pc[c] = "returned" /\ runErr[c] = CtxErr("context deadline exceeded")

\* the retries of c that were submitted
Resubmitted(c) == IF attempts[c] = 0 THEN 0 ELSE attempts[c] - 1

\* C11: the steps of the retries of a call come in the order decision, wait,
\* drain and close, re-clone of the body, resubmission (each step has been done
\* at least as often as the next one, and at most once more than the
\* resubmission); when the request is resubmitted the failed response is
\* drained; and a call never holds more than one response that is not drained.
C11_DrainBeforeResubmit ==
    \A c \in CallIds :
        /\ decisions[c] >= waits[c]
        /\ waits[c] >= drains[c]
        /\ drains[c] >= Resubmitted(c)
        /\ decisions[c] <= Resubmitted(c) + 1
        /\ IF origBody[c].nil THEN reclones[c] = 0
           ELSE drains[c] >= reclones[c] /\ reclones[c] >= Resubmitted(c)
        /\ pc[c] \in {"resend", "resent"} => resp[c].drained
        /\ undrained[c] <= 1
        /\ undrained[c] + inflight[c] <= 1
\* a second retry is about to be submitted, its failed response drained
C11_Witness ==
    \E c \in CallIds :
        /\ pc[c] = "resend" /\ attempts[c] = 2 /\ drains[c] = 2
        /\ resp[c].drained /\ undrained[c] = 0 /\ ~origBody[c].nil

\* C12: when a call has returned, every response it received is drained and
\* closed, except the one it returned with a nil error; the last response is
\* drained when the call returned a "retry limit reached" error.
C12_NoResponseAbandoned ==
    \A c \in CallIds :
        Finished(c) =>
            /\ undrained[c] = IF result[c].err = NilErr /\ ~result[c].resp.nil
                              THEN 1 ELSE 0
            /\ IsLimitErr(result[c].err) /\ ~resp[c].nil => resp[c].drained

\* a call is inside RoundTrip and has not returned
Running(c) == pc[c] \in {"RoundTrip", "send", "sent", "loop", "wait", "drain",
                         "reclone", "resend", "resent", "exit"}
\* the steps a call inside RoundTrip can still take: 7 per retry it has left
\* and what is left of the current one
StepsLeft(c) ==
    LET perRetry == 7 * (RetryCount - retries[c])
    IN  CASE pc[c] = "RoundTrip" -> 7 * RetryCount + 11
          [] pc[c] = "send"      -> 7 * RetryCount + 10
          [] pc[c] = "sent"      -> 7 * RetryCount + 9
          [] pc[c] = "loop"      -> perRetry + 8
          [] pc[c] = "wait"      -> perRetry + 7
          [] pc[c] = "drain"     -> perRetry + 6
          [] pc[c] = "reclone"   -> perRetry + 5
          [] pc[c] = "resend"    -> perRetry + 4
          [] pc[c] = "resent"    -> perRetry + 3
          [] pc[c] = "exit"      -> 1
          [] OTHER               -> 0

\* a call inside RoundTrip can take its next step: at the head of the loop the
\* policy gives a decision, anywhere else the step of that place is enabled
CanStep(c) ==
    IF pc[c] = "loop"
    THEN ShouldRetry(err[c], resp[c], defaultWait, intSize).retry \in BOOLEAN
    ELSE ENABLED (\/ CloneBody(c) \/ Send(c) \/ SendReturns(c) \/ Wait(c)
                  \/ DrainBody(c) \/ Reclone(c) \/ Resend(c) \/ ResendReturns(c)
                  \/ Return(c))

\* C13: a call makes at most 6 attempts and goes through at most 5 waits; when
\* it has returned, the waits it went through and the retry decisions it took
\* are each one fewer than its attempts; and every call terminates: a call
\* inside RoundTrip can always take a step, and each of its steps lowers a
\* number that is never negative.
C13_Terminates ==
    /\ [](\A c \in CallIds :
            /\ attempts[c] <= 6
            /\ waits[c] <= 5
            /\ Finished(c) => /\ waits[c] = attempts[c] - 1
                              /\ decisions[c] = attempts[c] - 1
            /\ Running(c) => CanStep(c))
    /\ [][\A c \in CallIds :
            Running(c) /\ pc'[c] # pc[c] =>
                StepsLeft(c)' < StepsLeft(c) /\ StepsLeft(c)' >= 0]_vars
\* a call that returned after the most attempts and waits it can make
C13_Witness ==
    \E c \in CallIds : Finished(c) /\ attempts[c] = 6 /\ waits[c] = 5

\* everything the model keeps for call d
CallState(d) ==
    <<pc[d], ctxAtRun[d], runErr[d], origBody[d], reqBody[d], bodyBytes[d],
      resp[d], err[d], retries[d], timeToWait[d], result[d], attempts[d],
      handed[d], slept[d], waits[d], drains[d], firstFinal[d], allRetryable[d],
      inflight[d], undrained[d], decisions[d], reclones[d]>>
\* what a call returns, told from its own attempts alone
OwnResult(c) ==
    IF attempts[c] = RetryCount + 1
    THEN [resp |-> resp[c],
          err  |-> IF err[c] # NilErr
                   THEN Errorf(<<"retry limit reached (err=">> \o err[c].msg
                               \o <<")">>)
                   ELSE LimitErr]
    ELSE [resp |-> resp[c], err |-> err[c]]

\* C14: with several calls on one transport, interleaved in any way, each
\* call's retry counter starts at zero and counts that call's retries only, a
\* call's outcome is decided by its own attempts (the limit error after its own
\* sixth attempt, else its own last outcome), a step of one call changes
\* nothing of another call, and no call changes the transport's configuration.
C14_PerCallBudget ==
    /\ [](\A c \in CallIds :
            /\ pc[c] \in {"loop", "wait", "drain", "reclone", "resend", "exit", "done"}
                   => retries[c] = attempts[c] - 1
            /\ pc[c] = "resent" => retries[c] = attempts[c] - 2
            /\ Finished(c) =>
                   /\ attempts[c] = RetryCount + 1 \/ ~LastRetryWorthy(c)
                   /\ result[c] = OwnResult(c))
    /\ [][/\ UNCHANGED cfgVars
          /\ Cardinality({c \in CallIds : CallState(c)' # CallState(c)}) <= 1]_vars
\* two calls in the middle of their retries at once, with different counts
C14_Witness ==
    \E c, d \in CallIds :
        /\ c # d
        /\ pc[c] = "resent" /\ retries[c] = 3 /\ attempts[c] = 5
        /\ pc[d] = "wait" /\ retries[d] = 1 /\ attempts[d] = 2
        /\ intSize = 64 /\ defaultWait = TimesSecond(FromNat(30, W64))

\* the wait computed for the last response of call c has elapsed: the loop
\* passed its wait step once per attempt so far, and slept exactly the computed
\* duration when that is positive (a wait of zero or less has nothing to sleep)
WaitElapsed(c) ==
    LET d == ShouldRetry(err[c], resp[c], defaultWait, intSize) IN
    /\ d.retry
    /\ timeToWait[c] = d.wait
    /\ waits[c] = attempts[c]
    /\ slept[c] = IF IsPos64(d.wait) THEN [did |-> TRUE, d |-> d.wait] ELSE NoSleep

\* C15: a call never has two attempts in flight, and a further attempt is
\* submitted only when the previous one has completed with a retry-worthy
\* response and the wait computed for that response has elapsed.
C15_AttemptsSequential ==
    /\ [](\A c \in CallIds : inflight[c] \in {0, 1})
    /\ [][\A c \in CallIds :
            attempts'[c] > attempts[c] =>
                /\ attempts'[c] = attempts[c] + 1
                /\ inflight[c] = 0
                /\ attempts[c] >= 1 =>
                       /\ LastRetryWorthy(c)
                       /\ WaitElapsed(c)]_vars
\* a third attempt in flight, after two completed attempts and two waits
C15_Witness ==
    \E c \in CallIds :
        /\ pc[c] = "resent" /\ attempts[c] = 3 /\ inflight[c] = 1
        /\ waits[c] = 2 /\ drains[c] = 2

\* the decimal text of a status code, as a diagnostic would print it
StatusText(st) ==
    CASE st = StatusOK -> "200"
      [] st = StatusTooManyRequests -> "429"
      [] st = StatusInternalServerError -> "500"
      [] st = StatusBadGateway -> "502"
      [] st = StatusServiceUnavailable -> "503"
      [] st = StatusGatewayTimeout -> "504"
      [] OTHER -> "400"
\* the parts of message m contain the parts p, in order and adjacent
Contains(m, p) ==
    \E i \in 0..(Len(m) - Len(p)) : \A j \in 1..Len(p) : m[i + j] = p[j]

\* C16: a returned "retry limit reached" error contains the text of the last
\* attempt's error when there was one, and otherwise the status code of the
\* last attempt's response.
C16_LimitErrCarriesCause ==
    \A c \in CallIds :
        Finished(c) /\ IsLimitErr(result[c].err) =>
            IF err[c] # NilErr
            THEN Contains(result[c].err.msg, err[c].msg)
            ELSE Contains(result[c].err.msg, <<StatusText(resp[c].status)>>)

\* C17: with a positive default wait, a retry after a 429 response has slept a
\* strictly positive duration, and the wait computed for it is positive.
C17_PositiveWaitAfter429 ==
    \A c \in CallIds :
        /\ IsPos64(defaultWait)
        /\ Waited(c)
        /\ err[c] = NilErr /\ resp[c].status = StatusTooManyRequests
        => /\ IsPos64(timeToWait[c])
           /\ slept[c].did /\ IsPos64(slept[c].d)

====
